---- MODULE Spec2Model ----
(***************************************************************************)
(* Streaming relay of poc-async-celery.                                    *)
(*                                                                         *)
(* Producer: backend/tasks.py, process_stream_async and store_chunk, one   *)
(* run for the task id JOB.  Every await of the run is one step, so the    *)
(* RPUSH, EXPIRE and PUBLISH of one store_chunk interleave with the        *)
(* consumers.  A Redis, database or engine call may raise; the number of   *)
(* raised calls of one behaviour is bounded by MaxFaults.                  *)
(*                                                                         *)
(* Consumers: backend/main.py, stream_response.generate_stream, one        *)
(* generator per attached client.  A client may close its connection and   *)
(* attach again (a new generator).                                         *)
(***************************************************************************)
EXTENDS Integers, Sequences, FiniteSets, TLC

\* ---------------------------------------------------------------- bounds
MaxEvents  == 2      \* events the generation engine yields in one run
MaxFaults  == 1      \* calls of the producer that raise in one behaviour
MaxAttach  == 2      \* sessions one client opens, one after the other
MaxEventsTwo == 1    \* events the engine yields when two clients are modelled
MaxRuns    == 2      \* executions of the task, redeliveries included
MaxEventsLive == 1   \* events the engine yields where the producer is restricted
MaxForeign == 1      \* messages another Redis client publishes on the channel
MaxRequests == 2     \* POSTs to /conversations/{conversation_id}/messages

\* ------------------------------------------------------------- constants
CHUNK_TTL     == 3600
max_wait_time == 300

\* Two clients, enough for two simultaneous sessions of one job.
Clients == {1, 2}

\* The task id minted for the submitted job and an id that was never minted.
JOB     == "job"
UNKNOWN == "unknown"
TaskIds == {JOB, UNKNOWN}

\* Readings of (datetime.now() - start_time).total_seconds(): the last
\* instant that is not a timeout, and the first one that is.
TimePoints == {max_wait_time, max_wait_time + 1}

\* event.type values of the engine
TEXT_DELTA      == "response.output_text.delta"
REASONING_DELTA == "response.reasoning_summary_text.delta"
NO_TYPE         == "<no type attribute>"

\* What `async for event in stream` can hand to the loop body.
EngineEvents ==
    { [type |-> TEXT_DELTA,         delta |-> "A"],
      [type |-> TEXT_DELTA,         delta |-> ""],
      [type |-> REASONING_DELTA,    delta |-> "R"],
      [type |-> "response.created", delta |-> ""],
      [type |-> NO_TYPE,            delta |-> ""] }

\* str(e) of the exceptions the run can see
ENGINE_ERROR == "engine error"
REDIS_ERROR  == "redis error"
DB_ERROR     == "database error"

NULL == "<None>"

\* Requests to send_message, which the server handles concurrently.
Requests == 1..MaxRequests

\* The conversations table holds one row; the path of a request can name it
\* or an id that has no row.
Conversations   == {1}
ConversationIds == {1, 2}

\* message.content of the request bodies
Contents == {"hello", "again"}

NoRequest  == [conversation_id |-> 0, content |-> ""]
NoResponse == [status_code |-> 0, task_id |-> NULL, message_id |-> 0,
               status |-> ""]

\* task.id of the n-th AsyncResult: a fresh uuid
NewTaskId(n) == IF n = 1 THEN "task-1" ELSE IF n = 2 THEN "task-2"
                ELSE IF n = 3 THEN "task-3" ELSE "task-4"

VARIABLES
    \* ---- producer locals (process_stream_async)
    ppc,                 \* position of the run
    phase,               \* which store_chunk call is running: delta, done, error
    chunk_index,
    chunk_count,
    assistant_content,
    assistant_reasoning,
    chunk_data,          \* argument of the running store_chunk
    nevents,             \* number of events the engine has yielded
    yielded,             \* the events the engine has yielded, in order
    faults,              \* calls that have raised
    runs,                \* executions of the task the broker has delivered
    \* ---- shared state
    chunks,              \* Redis lists stream:{task_id}:chunks
    ttl,                 \* which lists have an expiry armed
    metadata,            \* "status" field of stream:{JOB}:metadata
    message,             \* the assistant row of the messages table
    published,           \* payloads of the PUBLISHes on stream:{JOB}, in order
    \* ---- consumer locals (generate_stream), per client
    cpc,                 \* position of the generator
    ctask,               \* task_id of the request
    existing_chunks,     \* result of the LRANGE
    pos,                 \* position of the replay loop in existing_chunks
    inbox,               \* messages Redis has pushed to the subscription
    frames,              \* frames the generator has yielded
    srcs,                \* list position of the chunk each frame was made from
    attaches,            \* sessions the client has opened
    prev_srcs,           \* srcs of the client's previous session
    elapsed,             \* last reading of the seconds since start_time
    \* ---- send_message, per request, and what it writes to
    hpc,                 \* position of the handler
    hreq,                \* conversation_id of the path and content of the body
    user_message,        \* id of the user row, 0 before it is saved
    assistant_message,   \* id of the assistant row, 0 before it is saved
    task,                \* id of the AsyncResult, NULL before apply_async
    response,            \* what the handler has answered
    messages,            \* the messages table, a row's id is its position
    jobs                 \* task messages handed to the broker, with their state

pvars == <<ppc, phase, chunk_index, chunk_count, assistant_content,
           assistant_reasoning, chunk_data, nevents, yielded, faults,
           runs>>
svars == <<chunks, ttl, metadata, message, published>>
cvars == <<cpc, ctask, existing_chunks, pos, inbox, frames, srcs,
           attaches, prev_srcs, elapsed>>
hvars == <<hpc, hreq, user_message, assistant_message, task, response,
           messages, jobs>>
vars  == <<pvars, svars, cvars, hvars>>

\* ------------------------------------------------------------------ json
\* json.dumps of a chunk dict and json.loads of the stored string.
NoChunk == [chunk_index |-> -1, chunk_type |-> "", content |-> ""]

dumps(chunk) == <<chunk.chunk_index, chunk.chunk_type, chunk.content>>

loads(chunk_str) ==
    [chunk_index |-> chunk_str[1], chunk_type |-> chunk_str[2],
     content |-> chunk_str[3]]

IsTerminal(chunk_type) == chunk_type \in {"done", "error"}

\* A payload json.loads raises JSONDecodeError on, and whether json.loads
\* accepts a payload.
BAD_JSON == << "{not json" >>

IsJson(chunk_str) == Len(chunk_str) = Len(dumps(NoChunk))

\* What a Redis client other than the producer may publish on the channel
\* of the job: text that is no JSON, or a chunk of a chunk_type the session
\* has no branch for.
ForeignPayloads ==
    { BAD_JSON,
      dumps([chunk_index |-> 0, chunk_type |-> "ping", content |-> "x"]) }

\* ------------------------------------------------------- producer helpers
Outcomes == IF faults < MaxFaults THEN {"ok", "raise"} ELSE {"ok"}

Ended == ppc \in {"returned", "raised"}

\* The set of currently subscribed generators: inside `async with r.pubsub()`
\* after pubsub.subscribe(channel).
Subscribed(c) == cpc[c] \in {"loop", "wait"}

\* The pub/sub message of one PUBLISH.  `at` is not part of the payload: it
\* names the published chunk by its position in the list, where the RPUSH of
\* the same store_chunk call has just put it.
Message(channel, chunk_json) ==
    [type |-> "message", data |-> chunk_json, at |-> Len(chunks[channel]) - 1]

\* A PUBLISH that wakes a single waiter, as a queue would.
DeliverToOne(channel, chunk_json) ==
    [c \in Clients |->
        IF /\ Subscribed(c) /\ ctask[c] = channel
           /\ \A d \in Clients : (Subscribed(d) /\ ctask[d] = channel) => c <= d
        THEN Append(inbox[c], Message(channel, chunk_json)) ELSE inbox[c]]

\* PUBLISH channel chunk_json: Redis pushes the message to every connection
\* subscribed to the channel at that moment, and to no other.
Deliver(channel, chunk_json) ==
    [c \in Clients |->
        IF Subscribed(c) /\ ctask[c] = channel
        THEN Append(inbox[c], Message(channel, chunk_json)) ELSE inbox[c]]

\* `except Exception as e:` of process_stream_async, up to the call of
\* store_chunk with the error chunk.  An exception raised inside the handler
\* itself leaves the coroutine.
Except(msg) ==
    IF phase = "error"
    THEN /\ ppc' = "raised"
         /\ UNCHANGED <<phase, chunk_data>>
    ELSE /\ ppc' = "rpush"
         /\ phase' = "error"
         /\ chunk_data' = [chunk_index |-> chunk_index, chunk_type |-> "error",
                           content |-> msg]

\* ---------------------------------------------------------------- Init
Init ==
    /\ ppc = "start"
    /\ phase = "none"
    /\ chunk_index = 0
    /\ chunk_count = 0
    /\ assistant_content = ""
    /\ assistant_reasoning = ""
    /\ chunk_data = NoChunk
    /\ nevents = 0
    /\ yielded = <<>>
    /\ faults = 0
    /\ runs = 1
    /\ chunks = [t \in TaskIds |-> <<>>]
    /\ ttl = [t \in TaskIds |-> FALSE]
    /\ metadata = "none"
    /\ published = <<>>
    /\ message = [content |-> "", reasoning |-> NULL, task_id |-> JOB]
    /\ cpc = [c \in Clients |-> "idle"]
    /\ ctask = [c \in Clients |-> JOB]
    /\ existing_chunks = [c \in Clients |-> <<>>]
    /\ pos = [c \in Clients |-> 1]
    /\ inbox = [c \in Clients |-> <<>>]
    /\ frames = [c \in Clients |-> <<>>]
    /\ srcs = [c \in Clients |-> <<>>]
    /\ attaches = [c \in Clients |-> 0]
    /\ prev_srcs = [c \in Clients |-> <<>>]
    /\ elapsed = [c \in Clients |-> 0]
    /\ hpc = [r \in Requests |-> "idle"]
    /\ hreq = [r \in Requests |-> NoRequest]
    /\ user_message = [r \in Requests |-> 0]
    /\ assistant_message = [r \in Requests |-> 0]
    /\ task = [r \in Requests |-> NULL]
    /\ response = [r \in Requests |-> NoResponse]
    /\ messages = <<>>
    /\ jobs = <<>>

\* ------------------------------------------------------------- producer
\* store_stream_metadata(task_id, {"status": "processing", ...}), before the
\* try block: HSET then EXPIRE; an exception leaves the coroutine.
StoreMetadataProcessing ==
    /\ ppc = "start"
    /\ \E o \in Outcomes, done_hset \in BOOLEAN :
         /\ (o = "ok") => done_hset
         /\ metadata' = IF done_hset THEN "processing" ELSE metadata
         /\ ppc' = IF o = "ok" THEN "create" ELSE "raised"
         /\ faults' = IF o = "ok" THEN faults ELSE faults + 1
    /\ UNCHANGED <<runs, yielded, published, phase, chunk_index, chunk_count,
                   assistant_content, assistant_reasoning, chunk_data, nevents,
                   chunks, ttl, message, cvars>>
    /\ UNCHANGED hvars

\* stream = await openai_client.responses.create(...)
ResponsesCreate ==
    /\ ppc = "create"
    /\ \E o \in Outcomes :
         IF o = "ok"
         THEN /\ ppc' = "stream"
              /\ UNCHANGED <<phase, chunk_data, faults>>
         ELSE /\ Except(ENGINE_ERROR)
              /\ faults' = faults + 1
    /\ UNCHANGED <<runs, yielded, chunk_index, chunk_count, assistant_content,
                   assistant_reasoning, nevents, svars, cvars>>
    /\ UNCHANGED hvars

\* A test that lets every delta through, the empty one too.
TruthyAlways(delta) == TRUE

\* `if delta:` and `if reasoning_delta:` on a string.
Truthy(delta) == delta # ""

\* One iteration of `async for event in stream` up to its first await: the
\* event is skipped, or a content or reasoning chunk is handed to store_chunk.
NextEvent ==
    /\ ppc = "stream"
    /\ nevents < MaxEvents
    /\ \E event \in EngineEvents :
         /\ nevents' = nevents + 1
         /\ yielded' = Append(yielded, event)
         /\ IF event.type = TEXT_DELTA /\ Truthy(event.delta)
            THEN /\ chunk_count' = chunk_count + 1
                 /\ assistant_content' = assistant_content \o event.delta
                 /\ chunk_data' = [chunk_index |-> chunk_index,
                                   chunk_type |-> "content",
                                   content |-> event.delta]
                 /\ phase' = "delta"
                 /\ ppc' = "rpush"
                 /\ UNCHANGED assistant_reasoning
            ELSE IF event.type = REASONING_DELTA /\ Truthy(event.delta)
            THEN /\ assistant_reasoning' = assistant_reasoning \o event.delta
                 /\ chunk_data' = [chunk_index |-> chunk_index,
                                   chunk_type |-> "reasoning",
                                   content |-> event.delta]
                 /\ phase' = "delta"
                 /\ ppc' = "rpush"
                 /\ UNCHANGED <<chunk_count, assistant_content>>
            ELSE UNCHANGED <<chunk_count, assistant_content,
                             assistant_reasoning, chunk_data, phase, ppc>>
    /\ UNCHANGED <<runs, chunk_index, faults, svars, cvars>>
    /\ UNCHANGED hvars

\* The stream ends: the loop is left for the database update.
EngineComplete ==
    /\ ppc = "stream"
    /\ ppc' = "db"
    /\ UNCHANGED <<runs, yielded, phase, chunk_index, chunk_count,
                   assistant_content, assistant_reasoning, chunk_data, nevents,
                   faults, svars, cvars>>
    /\ UNCHANGED hvars

\* The stream raises instead of yielding.
EngineRaise ==
    /\ ppc = "stream"
    /\ faults < MaxFaults
    /\ faults' = faults + 1
    /\ Except(ENGINE_ERROR)
    /\ UNCHANGED <<runs, yielded, chunk_index, chunk_count, assistant_content,
                   assistant_reasoning, nevents, svars, cvars>>
    /\ UNCHANGED hvars

\* The accumulated reasoning written as it is, empty or not.
ReasoningAsIs(reasoning) == reasoning

\* `assistant_reasoning if assistant_reasoning else None`
ReasoningOrNone(reasoning) == IF reasoning # "" THEN reasoning ELSE NULL

\* The row written from the accumulated deltas while the stream is running.
UpdateMessageEarly ==
    /\ ppc = "stream"
    /\ message' = [content |-> assistant_content,
                   reasoning |-> ReasoningOrNone(assistant_reasoning),
                   task_id |-> JOB]
    /\ message' # message
    /\ UNCHANGED <<pvars, chunks, ttl, metadata, published, cvars>>
    /\ UNCHANGED hvars

\* `with Session(engine) as session:` the final content is written to the
\* message row, then the done chunk is handed to store_chunk.
UpdateMessage ==
    /\ ppc = "db"
    /\ \E o \in Outcomes :
         IF o = "ok"
         THEN /\ message' = [content |-> assistant_content,
                             reasoning |->
                                 ReasoningOrNone(assistant_reasoning),
                             task_id |-> JOB]
              /\ chunk_data' = [chunk_index |-> chunk_index,
                                chunk_type |-> "done", content |-> ""]
              /\ phase' = "done"
              /\ ppc' = "rpush"
              /\ UNCHANGED faults
         ELSE /\ Except(DB_ERROR)
              /\ faults' = faults + 1
              /\ UNCHANGED message
    /\ UNCHANGED <<runs, yielded, published, chunk_index, chunk_count,
                   assistant_content, assistant_reasoning, nevents, chunks,
                   ttl, metadata, cvars>>
    /\ UNCHANGED hvars

\* store_chunk: await r.rpush(list_key, chunk_json)
Rpush ==
    /\ ppc = "rpush"
    /\ \E o \in Outcomes :
         IF o = "ok"
         THEN /\ chunks' = [chunks EXCEPT ![JOB] = Append(@, dumps(chunk_data))]
              /\ ppc' = "expire"
              /\ UNCHANGED <<phase, chunk_data, faults>>
         ELSE /\ Except(REDIS_ERROR)
              /\ faults' = faults + 1
              /\ UNCHANGED chunks
    /\ UNCHANGED <<runs, yielded, published, chunk_index, chunk_count,
                   assistant_content, assistant_reasoning, nevents, ttl,
                   metadata, message, cvars>>
    /\ UNCHANGED hvars

\* store_chunk: await r.expire(list_key, CHUNK_TTL)
Expire ==
    /\ ppc = "expire"
    /\ \E o \in Outcomes :
         IF o = "ok"
         THEN /\ ttl' = [ttl EXCEPT ![JOB] = TRUE]
              /\ ppc' = "publish"
              /\ UNCHANGED <<phase, chunk_data, faults>>
         ELSE /\ Except(REDIS_ERROR)
              /\ faults' = faults + 1
              /\ UNCHANGED ttl
    /\ UNCHANGED <<runs, yielded, published, chunk_index, chunk_count,
                   assistant_content, assistant_reasoning, nevents, chunks,
                   metadata, message, cpc, ctask, existing_chunks, pos, inbox,
                   frames, srcs, attaches, prev_srcs, elapsed>>
    /\ UNCHANGED hvars

\* store_chunk: await r.publish(channel, chunk_json), and the return to the
\* caller: chunk_index += 1 after a delta, the metadata write after done or
\* error.
Publish ==
    /\ ppc = "publish"
    /\ \E o \in Outcomes :
         IF o = "ok"
         THEN /\ inbox' = Deliver(JOB, dumps(chunk_data))
              /\ published' = Append(published, dumps(chunk_data))
              /\ chunk_index' = IF phase = "delta" THEN chunk_index + 1
                                ELSE chunk_index
              /\ ppc' = CASE phase = "delta" -> "stream"
                          [] phase = "done"  -> "meta_done"
                          [] OTHER           -> "meta_error"
              /\ UNCHANGED <<phase, chunk_data, faults>>
         ELSE /\ Except(REDIS_ERROR)
              /\ faults' = faults + 1
              /\ UNCHANGED <<inbox, published, chunk_index>>
    /\ UNCHANGED <<runs, chunk_count, assistant_content, assistant_reasoning,
                   nevents, yielded, chunks, ttl, metadata, message, cpc,
                   ctask, existing_chunks, pos, frames, srcs, attaches,
                   prev_srcs, elapsed>>
    /\ UNCHANGED hvars

\* store_stream_metadata(task_id, {"status": "completed", ...}) inside the
\* try block; then the coroutine returns.
StoreMetadataCompleted ==
    /\ ppc = "meta_done"
    /\ \E o \in Outcomes, done_hset \in BOOLEAN :
         /\ (o = "ok") => done_hset
         /\ metadata' = IF done_hset THEN "completed" ELSE metadata
         /\ IF o = "ok"
            THEN /\ ppc' = "returned"
                 /\ UNCHANGED <<phase, chunk_data, faults>>
            ELSE /\ Except(REDIS_ERROR)
                 /\ faults' = faults + 1
    /\ UNCHANGED <<runs, yielded, published, chunk_index, chunk_count,
                   assistant_content, assistant_reasoning, nevents, chunks,
                   ttl, message, cvars>>
    /\ UNCHANGED hvars

\* store_stream_metadata(task_id, {"status": "error", ...}) in the handler;
\* then `raise`.
StoreMetadataError ==
    /\ ppc = "meta_error"
    /\ \E o \in Outcomes, done_hset \in BOOLEAN :
         /\ (o = "ok") => done_hset
         /\ metadata' = IF done_hset THEN "error" ELSE metadata
         /\ faults' = IF o = "ok" THEN faults ELSE faults + 1
    /\ ppc' = "raised"
    /\ UNCHANGED <<runs, yielded, published, phase, chunk_index, chunk_count,
                   assistant_content, assistant_reasoning, chunk_data, nevents,
                   chunks, ttl, message, cvars>>
    /\ UNCHANGED hvars

\* Redis drops the list CHUNK_TTL seconds after the last EXPIRE.  The idle
\* window is far longer than a run's gap between two appends, so it elapses
\* only once the run has ended.
Purge ==
    /\ Ended
    /\ ttl[JOB]
    /\ chunks' = [chunks EXCEPT ![JOB] = <<>>]
    /\ ttl' = [ttl EXCEPT ![JOB] = FALSE]
    /\ UNCHANGED <<published, pvars, metadata, message, cvars>>
    /\ UNCHANGED hvars

\* task_acks_late=True: the task message is acknowledged only when the task
\* has ended.  The worker is lost in the middle of a run, the broker delivers
\* the message again with the same task id, and process_stream_async starts
\* anew with fresh locals over the list the lost run has left.
Redeliver ==
    /\ ~Ended
    /\ runs < MaxRuns
    /\ runs' = runs + 1
    /\ ppc' = "start"
    /\ phase' = "none"
    /\ chunk_index' = 0
    /\ chunk_count' = 0
    /\ assistant_content' = ""
    /\ assistant_reasoning' = ""
    /\ chunk_data' = NoChunk
    /\ nevents' = 0
    /\ yielded' = <<>>
    /\ UNCHANGED <<faults, svars, cvars>>
    /\ UNCHANGED hvars

\* PUBLISH on stream:{JOB} by a Redis client that is not the producer.
ForeignPublish ==
    /\ Cardinality({i \in 1..Len(published) :
                       published[i] \in ForeignPayloads}) < MaxForeign
    /\ \E payload \in ForeignPayloads :
         /\ inbox' = Deliver(JOB, payload)
         /\ published' = Append(published, payload)
    /\ UNCHANGED <<pvars, chunks, ttl, metadata, message, cpc, ctask,
                   existing_chunks, pos, frames, srcs, attaches, prev_srcs,
                   elapsed>>
    /\ UNCHANGED hvars

Producer ==
    \/ StoreMetadataProcessing
    \/ ResponsesCreate
    \/ NextEvent
    \/ EngineComplete
    \/ EngineRaise
    \/ UpdateMessage
    \/ Rpush
    \/ Expire
    \/ Publish
    \/ StoreMetadataCompleted
    \/ StoreMetadataError

\* ------------------------------------------------------------- consumer
\* The chain without its reasoning branch.
FramesOfNoReasoning(chunk) ==
    IF chunk.chunk_type \in {"content", "done", "error"}
    THEN << [key |-> chunk.chunk_type,
             value |-> IF chunk.chunk_type = "done" THEN "true"
                       ELSE chunk.content] >>
    ELSE << >>

\* The if/elif chain of generate_stream on chunk_type, which stands twice
\* in the source with the same branches (replay loop and wait loop): the
\* frames one chunk is translated to (none for a chunk_type the chain does
\* not name).  The frame is the JSON object of the `data: ` line: its key
\* and its value.
FramesOf(chunk) ==
    CASE chunk.chunk_type = "content" ->
            << [key |-> "content", value |-> chunk.content] >>
      [] chunk.chunk_type = "reasoning" ->
            << [key |-> "reasoning", value |-> chunk.content] >>
      [] chunk.chunk_type = "done" ->
            << [key |-> "done", value |-> "true"] >>
      [] chunk.chunk_type = "error" ->
            << [key |-> "error", value |-> chunk.content] >>
      [] OTHER -> << >>

TimeoutFrame == [key |-> "error", value |-> "Stream timeout"]

\* The chain with the return and break of its error branch left out.
StopsOnDoneOnly(chunk) == chunk.chunk_type = "done"

\* Whether the chain ends the generator after the chunk (return or break).
Stops(chunk) == IsTerminal(chunk.chunk_type)

\* For each frame of FramesOf(chunk), the list position of the chunk.
SrcsOf(chunk, at) == [i \in 1..Len(FramesOf(chunk)) |-> at]

\* An LRANGE that starts one element too late.
lrangeSkipFirst(list_key, start) ==
    SubSeq(chunks[list_key], start + 2, Len(chunks[list_key]))

\* r.lrange(list_key, start, -1): the elements of the list from the 0-based
\* index start to the end; the empty list when the key does not exist.
lrange(list_key, start) ==
    SubSeq(chunks[list_key], start + 1, Len(chunks[list_key]))

\* A request GET /stream/{task_id} arrives: start_time is taken and the
\* LRANGE 0 -1 of the list is read and parsed.
Attach(c, task_id) ==
    /\ cpc[c] = "idle"
    /\ attaches[c] < MaxAttach
    /\ attaches[c] > 0 => task_id = ctask[c]
    /\ attaches' = [attaches EXCEPT ![c] = @ + 1]
    /\ ctask' = [ctask EXCEPT ![c] = task_id]
    /\ LET chunk_strings == lrange(task_id, 0) IN
         existing_chunks' = [existing_chunks EXCEPT ![c] =
            [i \in 1..Len(chunk_strings) |-> loads(chunk_strings[i])]]
    /\ pos' = [pos EXCEPT ![c] = 1]
    /\ frames' = [frames EXCEPT ![c] = <<>>]
    /\ srcs' = [srcs EXCEPT ![c] = <<>>]
    /\ cpc' = [cpc EXCEPT ![c] = "replay"]
    /\ elapsed' = [elapsed EXCEPT ![c] = 0]
    /\ UNCHANGED <<pvars, svars, inbox, prev_srcs>>
    /\ UNCHANGED hvars

\* One iteration of `for chunk_data in existing_chunks`.
ReplayStep(c) ==
    /\ cpc[c] = "replay"
    /\ pos[c] <= Len(existing_chunks[c])
    /\ LET chunk == existing_chunks[c][pos[c]] IN
         /\ frames' = [frames EXCEPT ![c] = @ \o FramesOf(chunk)]
         /\ srcs' = [srcs EXCEPT ![c] = @ \o SrcsOf(chunk, pos[c] - 1)]
         /\ cpc' = [cpc EXCEPT ![c] = IF Stops(chunk) THEN "closed"
                                      ELSE "replay"]
         /\ pos' = [pos EXCEPT ![c] = @ + 1]
    /\ UNCHANGED <<pvars, svars, ctask, existing_chunks, inbox, attaches,
                   prev_srcs, elapsed>>
    /\ UNCHANGED hvars

\* A subscribe that also re-arms the expiry of the list it follows.
SubscribeRefreshing(c) ==
    /\ cpc[c] = "replay"
    /\ pos[c] > Len(existing_chunks[c])
    /\ cpc' = [cpc EXCEPT ![c] = "loop"]
    /\ inbox' = [inbox EXCEPT ![c] = <<>>]
    /\ existing_chunks' = [existing_chunks EXCEPT ![c] = <<>>]
    /\ pos' = [pos EXCEPT ![c] = 1]
    /\ ttl' = [ttl EXCEPT ![ctask[c]] = TRUE]
    /\ UNCHANGED <<pvars, chunks, metadata, message, published, ctask,
                   frames, srcs, attaches, prev_srcs, elapsed>>
    /\ UNCHANGED hvars

\* The replay loop is over without a terminal chunk:
\* `async with r.pubsub() as pubsub: await pubsub.subscribe(channel)`.
Subscribe(c) ==
    /\ cpc[c] = "replay"
    /\ pos[c] > Len(existing_chunks[c])
    /\ cpc' = [cpc EXCEPT ![c] = "loop"]
    /\ inbox' = [inbox EXCEPT ![c] = <<>>]
    /\ existing_chunks' = [existing_chunks EXCEPT ![c] = <<>>]
    /\ pos' = [pos EXCEPT ![c] = 1]
    /\ UNCHANGED <<pvars, svars, ctask, frames, srcs, attaches, prev_srcs,
                   elapsed>>
    /\ UNCHANGED hvars

\* A deadline that is over as soon as it is reached.
ExpiredAt(seconds) == seconds >= max_wait_time

\* `if elapsed > max_wait_time:`
Expired(seconds) == seconds > max_wait_time

\* A loop head that reads the clock and goes on to wait without comparing.
LoopCheckSkipped(c) ==
    /\ cpc[c] = "loop"
    /\ \E now \in TimePoints : elapsed' = [elapsed EXCEPT ![c] = now]
    /\ cpc' = [cpc EXCEPT ![c] = "wait"]
    /\ UNCHANGED <<pvars, svars, ctask, existing_chunks, pos, attaches,
                   prev_srcs, frames, srcs, inbox>>
    /\ UNCHANGED hvars

\* Head of `while not done`: elapsed is read from the clock and compared
\* with max_wait_time.
LoopCheck(c) ==
    /\ cpc[c] = "loop"
    /\ \E now \in TimePoints :
         /\ elapsed' = [elapsed EXCEPT ![c] = now]
         /\ IF Expired(now)
            THEN /\ frames' = [frames EXCEPT ![c] = Append(@, TimeoutFrame)]
                 /\ srcs' = [srcs EXCEPT ![c] = Append(@, -1)]
                 /\ cpc' = [cpc EXCEPT ![c] = "closed"]
                 /\ inbox' = [inbox EXCEPT ![c] = <<>>]
            ELSE /\ cpc' = [cpc EXCEPT ![c] = "wait"]
                 /\ UNCHANGED <<frames, srcs, inbox>>
    /\ UNCHANGED <<pvars, svars, ctask, existing_chunks, pos, attaches,
                   prev_srcs>>
    /\ UNCHANGED hvars

\* A decode failure turned into an error chunk instead of being passed over.
ParsedOrError(data) ==
    IF IsJson(data) THEN loads(data)
    ELSE [chunk_index |-> -1, chunk_type |-> "error",
          content |-> "Failed to decode message"]

\* `try: chunk_data = json.loads(message['data']) ... except
\* json.JSONDecodeError: continue`: the parsed chunk, or a chunk that no
\* branch of the chain matches when the payload does not parse.
Parsed(data) == IF IsJson(data) THEN loads(data) ELSE NoChunk

\* message = await pubsub.get_message(ignore_subscribe_messages=True,
\* timeout=1.0) and the body of the loop: None after the timeout, or the
\* oldest pushed message, which is parsed and translated.
GetMessage(c) ==
    /\ cpc[c] = "wait"
    /\ IF inbox[c] = <<>>
       THEN /\ cpc' = [cpc EXCEPT ![c] = "loop"]
            /\ UNCHANGED <<frames, srcs, inbox>>
       ELSE LET chunk == Parsed(Head(inbox[c]).data) IN
            /\ frames' = [frames EXCEPT ![c] = @ \o FramesOf(chunk)]
            /\ srcs' = [srcs EXCEPT ![c] = @ \o SrcsOf(chunk, Head(inbox[c]).at)]
            /\ IF Stops(chunk)
               THEN /\ cpc' = [cpc EXCEPT ![c] = "closed"]
                    /\ inbox' = [inbox EXCEPT ![c] = <<>>]
               ELSE /\ cpc' = [cpc EXCEPT ![c] = "loop"]
                    /\ inbox' = [inbox EXCEPT ![c] = Tail(@)]
    /\ elapsed' = [elapsed EXCEPT ![c] = IF cpc'[c] = "loop" THEN 0 ELSE @]
    /\ UNCHANGED <<pvars, svars, ctask, existing_chunks, pos, attaches,
                   prev_srcs>>
    /\ UNCHANGED hvars

\* The client closes the connection of a running generator: the generator is
\* closed where it stands, its subscription is dropped, and the client keeps
\* what it has observed.
Disconnect(c) ==
    /\ cpc[c] \in {"replay", "loop", "wait"}
    /\ cpc' = [cpc EXCEPT ![c] = "idle"]
    /\ inbox' = [inbox EXCEPT ![c] = <<>>]
    /\ prev_srcs' = [prev_srcs EXCEPT ![c] = srcs[c]]
    /\ existing_chunks' = [existing_chunks EXCEPT ![c] = <<>>]
    /\ pos' = [pos EXCEPT ![c] = 1]
    /\ frames' = [frames EXCEPT ![c] = <<>>]
    /\ srcs' = [srcs EXCEPT ![c] = <<>>]
    /\ elapsed' = [elapsed EXCEPT ![c] = 0]
    /\ UNCHANGED <<pvars, svars, ctask, attaches>>
    /\ UNCHANGED hvars

Consumer(c) ==
    \/ \E task_id \in TaskIds : Attach(c, task_id)
    \/ ReplayStep(c)
    \/ Subscribe(c)
    \/ LoopCheck(c)
    \/ GetMessage(c)
    \/ Disconnect(c)

\* The steps of a generator that the server's event loop schedules.
SessionStep(c) ==
    \/ ReplayStep(c)
    \/ Subscribe(c)
    \/ LoopCheck(c)
    \/ GetMessage(c)

\* One producer run and one client that may attach, disconnect and attach
\* again, to the job or to an id that was never minted.
Next == Producer \/ Purge \/ Consumer(1)

\* One producer run of at most MaxEventsTwo engine events and two clients,
\* each with one session of the job.
ConsumerOnce(c) ==
    \/ attaches[c] = 0 /\ Attach(c, JOB)
    \/ SessionStep(c)
    \/ Disconnect(c)

NextTwo ==
    \/ Producer /\ nevents' <= MaxEventsTwo
    \/ Purge
    \/ \E c \in Clients : ConsumerOnce(c)

\* The producer alone, with redeliveries of the task message.
NextRedeliver == Producer \/ Redeliver

Spec == Init /\ [][Next]_vars

SpecRedeliver == Init /\ [][NextRedeliver]_vars

\* The worker and the server run every coroutine that is ready; when a client
\* attaches or disconnects is up to the client.
FairSpec ==
    Spec /\ WF_vars(Producer) /\ WF_vars(Purge) /\ WF_vars(SessionStep(1))

SpecTwo == Init /\ [][NextTwo]_vars

\* A pass of the loop head at which the clock has gone beyond max_wait_time.
ClockBeyond(c) == LoopCheck(c) /\ elapsed'[c] > max_wait_time

\* Time advances: the server runs the generator whenever it is ready, every
\* get_message returns within its timeout, and a generator that keeps coming
\* back to the loop head reads a clock that goes beyond any fixed number of
\* seconds.  Nothing is assumed of the producer.
NextLive ==
    \/ Producer /\ nevents' <= MaxEventsLive
    \/ Purge
    \/ Consumer(1)

\* The restricted producer, one client, and a foreign publisher.
NextForeign ==
    \/ Producer /\ nevents' <= MaxEventsLive
    \/ Purge
    \/ Consumer(1)
    \/ ForeignPublish

SpecForeign == Init /\ [][NextForeign]_vars

TimeSpec ==
    /\ Init /\ [][NextLive]_vars
    /\ WF_vars(SessionStep(1)) /\ SF_vars(ClockBeyond(1))

\* --------------------------------------------------------- send_message
\* POST /conversations/{conversation_id}/messages arrives.
Request(r) ==
    /\ hpc[r] = "idle"
    /\ \E conversation_id \in ConversationIds, content \in Contents :
         hreq' = [hreq EXCEPT ![r] = [conversation_id |-> conversation_id,
                                      content |-> content]]
    /\ hpc' = [hpc EXCEPT ![r] = "get"]
    /\ UNCHANGED <<user_message, assistant_message, task, response, messages,
                   jobs>>
    /\ UNCHANGED <<pvars, svars, cvars>>

\* `if not conversation`, with conversation = session.get(ConversationModel,
\* conversation_id): the check every request passes.
FoundAlways(conversation_id) == TRUE

Found(conversation_id) == conversation_id \in Conversations

\* session.get and the 404.
GetConversation(r) ==
    /\ hpc[r] = "get"
    /\ IF Found(hreq[r].conversation_id)
       THEN /\ hpc' = [hpc EXCEPT ![r] = "user"]
            /\ UNCHANGED response
       ELSE /\ hpc' = [hpc EXCEPT ![r] = "failed"]
            /\ response' = [response EXCEPT ![r] =
                              [status_code |-> 404, task_id |-> NULL,
                               message_id |-> 0,
                               status |-> "Conversation not found"]]
    /\ UNCHANGED <<hreq, user_message, assistant_message, task, messages,
                   jobs>>
    /\ UNCHANGED <<pvars, svars, cvars>>

\* A new row of the messages table; `by` records the request that added it.
Row(r, role, content) ==
    [conversation_id |-> hreq[r].conversation_id, role |-> role,
     content |-> content, reasoning |-> NULL, task_id |-> NULL, by |-> r]

\* user_message: add, commit, refresh.
SaveUserMessage(r) ==
    /\ hpc[r] = "user"
    /\ messages' = Append(messages, Row(r, "user", hreq[r].content))
    /\ user_message' = [user_message EXCEPT ![r] = Len(messages) + 1]
    /\ hpc' = [hpc EXCEPT ![r] = "assistant"]
    /\ UNCHANGED <<hreq, assistant_message, task, response, jobs>>
    /\ UNCHANGED <<pvars, svars, cvars>>

\* assistant_message with content "" and reasoning None: add, commit, refresh.
CreatePlaceholder(r) ==
    /\ hpc[r] = "assistant"
    /\ messages' = Append(messages, Row(r, "assistant", ""))
    /\ assistant_message' = [assistant_message EXCEPT ![r] = Len(messages) + 1]
    /\ hpc' = [hpc EXCEPT ![r] = "apply"]
    /\ UNCHANGED <<hreq, user_message, task, response, jobs>>
    /\ UNCHANGED <<pvars, svars, cvars>>

\* process_openai_stream.apply_async(args=[assistant_message.id,
\* message.content, conversation_id]): the task message goes to the broker
\* and the call returns the AsyncResult.
ApplyAsync(r) ==
    /\ hpc[r] = "apply"
    /\ LET id == NewTaskId(Len(jobs) + 1) IN
         /\ jobs' = Append(jobs,
                           [id |-> id,
                            args |-> [message_id |-> assistant_message[r],
                                      user_content |-> hreq[r].content,
                                      conversation_id |->
                                          hreq[r].conversation_id],
                            state |-> "PENDING", by |-> r])
         /\ task' = [task EXCEPT ![r] = id]
    /\ hpc' = [hpc EXCEPT ![r] = "save"]
    /\ UNCHANGED <<hreq, user_message, assistant_message, response, messages>>
    /\ UNCHANGED <<pvars, svars, cvars>>

\* assistant_message.task_id = task.id, commit, and the return of the dict.
SaveTaskId(r) ==
    /\ hpc[r] = "save"
    /\ messages' = [messages EXCEPT ![assistant_message[r]].task_id = task[r]]
    /\ response' = [response EXCEPT ![r] =
                      [status_code |-> 200, task_id |-> task[r],
                       message_id |-> assistant_message[r],
                       status |-> "processing"]]
    /\ hpc' = [hpc EXCEPT ![r] = "returned"]
    /\ UNCHANGED <<hreq, user_message, assistant_message, task, jobs>>
    /\ UNCHANGED <<pvars, svars, cvars>>

\* A worker takes the task message of job j and calls process_openai_stream.
WorkerStart(j) ==
    /\ jobs[j].state = "PENDING"
    /\ jobs' = [jobs EXCEPT ![j].state = "STARTED"]
    /\ UNCHANGED <<hpc, hreq, user_message, assistant_message, task, response,
                   messages>>
    /\ UNCHANGED <<pvars, svars, cvars>>

\* The run of job j comes to its end: the row message_id gets the text of the
\* answer, and the task returns.
WorkerFinish(j) ==
    /\ jobs[j].state = "STARTED"
    /\ messages' = [messages EXCEPT ![jobs[j].args.message_id].content = "A"]
    /\ jobs' = [jobs EXCEPT ![j].state = "SUCCESS"]
    /\ UNCHANGED <<hpc, hreq, user_message, assistant_message, task, response>>
    /\ UNCHANGED <<pvars, svars, cvars>>

send_message(r) ==
    \/ Request(r)
    \/ GetConversation(r)
    \/ SaveUserMessage(r)
    \/ CreatePlaceholder(r)
    \/ ApplyAsync(r)
    \/ SaveTaskId(r)

Worker ==
    \/ \E j \in 1..Len(jobs) : WorkerStart(j)
    \/ \E j \in 1..Len(jobs) : WorkerFinish(j)

\* The server handling MaxRequests requests at a time, and the workers running
\* the jobs the requests submit.
NextSend ==
    \/ \E r \in Requests : send_message(r)
    \/ Worker

SpecSend == Init /\ [][NextSend]_vars

\* ============================================================== properties
\* The stored chunk list of a task, parsed.
Stored(task_id) ==
    [i \in 1..Len(chunks[task_id]) |-> loads(chunks[task_id][i])]

\* Positions of the terminal chunks of a parsed list.
TerminalAt(list) == {i \in 1..Len(list) : IsTerminal(list[i].chunk_type)}

RECURSIVE Translate(_)
\* The frames of a parsed list, chunk by chunk.
Translate(list) ==
    IF list = <<>> THEN <<>>
    ELSE FramesOf(Head(list)) \o Translate(Tail(list))

Last(seq) == seq[Len(seq)]

\* The session of client c has ended by itself (not by a disconnect) with
\* the synthetic timeout frame.
TimedOut(c) ==
    /\ cpc[c] = "closed"
    /\ frames[c] # <<>>
    /\ Last(srcs[c]) = -1

\* C1: the frames of a session follow the stored list without a gap: a
\* session never emits the event at position N+1 without having emitted the
\* event at position N before, also when the event is appended and published
\* between the session's LRANGE and its SUBSCRIBE.  Stated for the runs in
\* which no call of the producer has raised.
C1_GapFree ==
    \A c \in Clients : \A i \in 1..Len(srcs[c]) :
        (faults = 0 /\ srcs[c][i] > 0) =>
            \E j \in 1..(i - 1) : srcs[c][j] = srcs[c][i] - 1

\* C2: the chunk list of the job holds at most one done or error chunk, and
\* that chunk is the last element of the list.
C2_OneTerminalLast ==
    /\ Cardinality(TerminalAt(Stored(JOB))) <= 1
    /\ \A i \in TerminalAt(Stored(JOB)) : i = Len(chunks[JOB])

\* C3: no session emits a frame for the same stored event twice: every list
\* position appears at most once among the sources of a session's frames.
\* Stated for the runs in which no call of the producer has raised.
C3_NoDuplicate ==
    \A c \in Clients : \A i, j \in 1..Len(srcs[c]) :
        (faults = 0 /\ i # j /\ srcs[c][i] >= 0) => srcs[c][i] # srcs[c][j]

TerminalKeys == {"done", "error"}

C5_ReplayAll ==
    \A c \in Clients :
        (cpc[c] = "closed" /\ TerminalAt(existing_chunks[c]) # {}) =>
            /\ frames[c] = Translate(existing_chunks[c])
            /\ srcs[c] = [i \in 1..Len(existing_chunks[c]) |-> i - 1]

\* The highest list position a sequence of sources names, -1 if none.
MaxSeen(seen) ==
    IF seen = <<>> THEN -1
    ELSE CHOOSE m \in {seen[i] : i \in 1..Len(seen)} :
            \A i \in 1..Len(seen) : seen[i] <= m

C7_NotFound ==
    \A c \in Clients :
        (ctask[c] = UNKNOWN /\ cpc[c] # "idle") =>
            (~Subscribed(c) /\ ~TimedOut(c))

\* The run has ended in the handler of an exception of the engine.
EngineRaised ==
    /\ ppc = "raised"
    /\ phase = "error"
    /\ chunk_data.content = ENGINE_ERROR

\* C8: when the engine raises after n deltas the list is those n chunks and
\* one error chunk with the message, without a done chunk, and every session
\* of the job that ends before its deadline has emitted exactly the frames of
\* that list.
C8_EngineFailure ==
    (EngineRaised /\ chunks[JOB] # <<>>) =>
        /\ TerminalAt(Stored(JOB)) = {Len(chunks[JOB])}
        /\ Last(Stored(JOB)) = [chunk_index |-> chunk_index,
                                chunk_type |-> "error",
                                content |-> ENGINE_ERROR]
        /\ Len(chunks[JOB]) = chunk_index + 1
        /\ \A c \in Clients :
              (cpc[c] = "closed" /\ ctask[c] = JOB /\ ~TimedOut(c)) =>
                  frames[c] = Translate(Stored(JOB))

\* The session of client c waits for a notification, its last deadline check
\* having passed, while the run has ended, the terminal event of the job is
\* in the store and no notification is left for the session.
MissedTerminal(c) ==
    /\ cpc[c] = "wait"
    /\ ctask[c] = JOB
    /\ Ended
    /\ TerminalAt(Stored(JOB)) # {}
    /\ inbox[c] = <<>>

\* C9: a missed notification costs no correctness: a session that waits
\* within its deadline while the terminal event of its job is in the store
\* and no notification is left for it does not end with the timeout frame.
C9_NoTimeoutAfterTerminal ==
    \A c \in Clients : \A k \in 1..MaxAttach :
        []( (attaches[c] = k /\ MissedTerminal(c))
            => [](~(attaches[c] = k /\ TimedOut(c))) )

\* The locals of the generator of client c.
Session(c) ==
    <<cpc[c], ctask[c], existing_chunks[c], pos[c], inbox[c], frames[c],
      srcs[c], attaches[c], prev_srcs[c]>>

IsSuffix(s, t) ==
    /\ Len(s) <= Len(t)
    /\ s = SubSeq(t, Len(t) - Len(s) + 1, Len(t))

\* A PUBLISH of the producer has returned.
Published ==
    /\ ppc = "publish"
    /\ ppc' \in {"stream", "meta_done", "meta_error"}

C11_ProducerIndependent ==
    [][ /\ (~Ended /\ Ended') => TerminalAt(Stored(JOB))' # {}
        /\ \A c \in Clients : Consumer(c) => UNCHANGED <<pvars, svars>>
      ]_vars

\* C13: the status written to the metadata of the job is one of processing,
\* completed, failed; it moves only from processing to completed or from
\* processing to failed, and once completed or failed it never changes again.
C13_StatusMonotonic ==
    [][ /\ metadata' \in {"none", "processing", "completed", "failed"}
        /\ metadata \in {"completed", "failed"} => metadata' = metadata
        /\ metadata' \in {"completed", "failed"}
               => metadata \in {"processing", metadata'}
      ]_vars

\* C14: in every reachable state of one run the element at position i
\* (counting from 0) of the chunk list of the job has chunk_index i, the
\* terminal done/error chunk included: no gap and no reuse.
C14_IndexIsPosition ==
    \A i \in 1..Len(Stored(JOB)) : Stored(JOB)[i].chunk_index = i - 1

\* The engine stream has ended without raising: the run is at the database
\* update, or past it with the done chunk built, or in the handler of an
\* exception raised after the stream ended.
EngineCompleted ==
    \/ ppc = "db"
    \/ phase = "done"
    \/ \E i \in 1..Len(Stored(JOB)) : Stored(JOB)[i].chunk_type = "done"
    \/ phase = "error" /\ chunk_data.content = DB_ERROR

\* C16: when the engine completes without failure, the run ends with exactly
\* one done chunk in the list of the job, with empty content, as the last
\* element and the only terminal chunk; when no delta was stored the list is
\* exactly that one done chunk with chunk_index 0.
C16_OneDoneLast ==
    [][ (~Ended /\ Ended' /\ EngineCompleted') =>
          LET list == Stored(JOB)' IN
          /\ Len(list) >= 1
          /\ TerminalAt(list) = {Len(list)}
          /\ Last(list).chunk_type = "done"
          /\ Last(list).content = ""
          /\ Len(list) = 1 => list[1].chunk_index = 0
      ]_vars

\* The list positions after position last of the chunk list of the job, in
\* order.
PositionsAfter(last) ==
    [i \in 1..(Len(chunks[JOB]) - 1 - last) |-> last + i]

\* C17: in the wait loop, a session that receives a notification emits the
\* frames of all the stored events after the last one it has emitted, in
\* order, and not the notified payload alone: one wake-up after several
\* appends delivers all of them.  Stated for the runs in which no call of the
\* producer has raised and before the list expires.
C17_RereadOnWake ==
    [][ \A c \in Clients :
          ( /\ GetMessage(c)
            /\ inbox[c] # <<>>
            /\ ctask[c] = JOB
            /\ faults = 0
            /\ ttl[JOB] )
          => srcs'[c] = srcs[c] \o PositionsAfter(MaxSeen(srcs[c]))
      ]_vars

\* C18: every chunk is published right after it is appended and before the
\* next append: until the list expires, the payloads published on the channel
\* of the job are, in order, the elements of the chunk list, except that the
\* most recently appended element may not be published yet.
C18_PublishFollowsAppend ==
    (~Ended \/ ttl[JOB]) =>
        /\ Len(published) <= Len(chunks[JOB])
        /\ published = SubSeq(chunks[JOB], 1, Len(published))
        /\ Len(chunks[JOB]) - Len(published) <= 1

\* The chunks a sequence of engine events is to be stored as, numbered from
\* index: one content or reasoning chunk for each text or reasoning-summary
\* delta event with a non-empty delta, none for any other event.
RECURSIVE ChunksOf(_, _)
ChunksOf(events, index) ==
    IF events = <<>> THEN <<>>
    ELSE LET e == Head(events) IN
         IF e.type \in {TEXT_DELTA, REASONING_DELTA} /\ e.delta # ""
         THEN << [chunk_index |-> index,
                  chunk_type |-> IF e.type = TEXT_DELTA THEN "content"
                                 ELSE "reasoning",
                  content |-> e.delta] >> \o ChunksOf(Tail(events), index + 1)
         ELSE ChunksOf(Tail(events), index)

\* An engine event of unexpected shape: no type, another type, or an empty
\* delta.
Unexpected(e) ==
    \/ e.type \notin {TEXT_DELTA, REASONING_DELTA}
    \/ e.delta = ""

\* The content and reasoning chunks of a parsed list, in order.
DeltasOf(list) == SelectSeq(list, LAMBDA ch : ~IsTerminal(ch.chunk_type))

\* C20: an engine event of unexpected shape is skipped.  The step that takes
\* it appends nothing, leaves chunk_index as it is, publishes nothing and
\* stays in the loop; and until the list expires the stored content and
\* reasoning chunks are the non-empty deltas the engine has yielded, in order
\* and numbered from 0 (the last one may still be on its way to the list),
\* the whole list being exactly those chunks whenever the run is at the head
\* of the loop or has just left it.
C20_SkipUnexpected ==
    /\ []( (~Ended \/ ttl[JOB]) =>
            LET expected == ChunksOf(yielded, 0)
                deltas   == DeltasOf(Stored(JOB))
            IN /\ Len(deltas) <= Len(expected)
               /\ deltas = SubSeq(expected, 1, Len(deltas))
               /\ Len(expected) - Len(deltas) <= 1
               /\ ppc \in {"stream", "db"} =>
                     /\ Stored(JOB) = expected
                     /\ chunk_index = Len(expected) )
    /\ [][ (Len(yielded') > Len(yielded) /\ Unexpected(Last(yielded'))) =>
              /\ UNCHANGED <<chunks, chunk_index, published, inbox>>
              /\ ppc' = "stream"
         ]_vars

\* The engine has yielded an event of unexpected shape and then a non-empty
\* delta, which is stored as chunk 0.
C20_Witness ==
    /\ ppc = "db"
    /\ Len(yielded) = 2
    /\ Unexpected(yielded[1])
    /\ ~Unexpected(yielded[2])
    /\ Len(chunks[JOB]) = 1

\* C12: a subscribed session has emitted no terminal frame.  When the head of
\* its wait loop reads more than max_wait_time seconds since the start of the
\* session, the session emits the one frame {error: 'Stream timeout'} and
\* closes, and the step changes neither the locals of the producer nor the
\* chunk lists, their expiry, the metadata, the message row or the channel;
\* when it reads max_wait_time seconds or less it emits nothing and goes on
\* to wait, and a get_message that returns None emits nothing either.
C12_SessionTimeout ==
    /\ [](\A c \in Clients :
            /\ Subscribed(c) =>
                  \A i \in 1..Len(frames[c]) :
                      frames[c][i].key \notin TerminalKeys
            /\ TimedOut(c) =>
                  /\ elapsed[c] > max_wait_time
                  /\ \A i \in 1..(Len(frames[c]) - 1) :
                        frames[c][i].key \notin TerminalKeys)
    /\ [][ \A c \in Clients :
             /\ LoopCheck(c) =>
                   IF elapsed'[c] > max_wait_time
                   THEN /\ frames'[c] = Append(frames[c], TimeoutFrame)
                        /\ cpc'[c] = "closed"
                        /\ UNCHANGED <<pvars, svars>>
                   ELSE /\ frames'[c] = frames[c]
                        /\ cpc'[c] = "wait"
             /\ (GetMessage(c) /\ inbox[c] = <<>>) =>
                   /\ frames'[c] = frames[c]
                   /\ cpc'[c] = "loop"
         ]_vars

\* A session of the job has replayed or received a chunk, then timed out
\* while the producer is still in its loop.
C12_Witness ==
    /\ TimedOut(1)
    /\ ctask[1] = JOB
    /\ Len(frames[1]) >= 2
    /\ ppc = "stream"

\* C19: the status of the job agrees with its chunk list.  Until the list
\* expires: the status is completed only if a done chunk is stored and failed
\* only if an error chunk is stored; while chunks are stored and none of them
\* is terminal the status is processing; and once the run has ended, a list
\* whose last chunk is done goes with the status completed and a list whose
\* last chunk is error with the status failed.
C19_StatusAgreesWithLog ==
    (~Ended \/ ttl[JOB]) =>
        LET list == Stored(JOB) IN
        /\ metadata = "completed" =>
              \E i \in 1..Len(list) : list[i].chunk_type = "done"
        /\ metadata = "failed" =>
              \E i \in 1..Len(list) : list[i].chunk_type = "error"
        /\ (list # <<>> /\ TerminalAt(list) = {}) => metadata = "processing"
        /\ (Ended /\ list # <<>> /\ Last(list).chunk_type = "done")
              => metadata = "completed"
        /\ (Ended /\ list # <<>> /\ Last(list).chunk_type = "error")
              => metadata = "failed"

\* C15: when the task is executed more than once for the same task id (the
\* message is redelivered after a worker loss), the chunks of all executions
\* lie in the one list of the job, and no two of them carry the same
\* chunk_index.  Stated for the runs in which no call of the producer has
\* raised.
C15_UniqueAcrossRuns ==
    faults = 0 =>
        \A i, j \in 1..Len(Stored(JOB)) :
            i # j => Stored(JOB)[i].chunk_index # Stored(JOB)[j].chunk_index

\* C21: every append refreshes the expiry of the whole list.  A list that
\* holds at least one chunk always has an expiry armed; when a store_chunk
\* call returns the expiry is armed; and the list only ever grows by appends
\* or is dropped as a whole.
C21_Retention ==
    /\ [](chunks[JOB] # <<>> => ttl[JOB])
    /\ [][ /\ Published => ttl'[JOB]
           /\ chunks'[JOB] # chunks[JOB] =>
                 \/ chunks'[JOB] = <<>>
                 \/ /\ Len(chunks'[JOB]) = Len(chunks[JOB]) + 1
                    /\ chunks[JOB] = SubSeq(chunks'[JOB], 1, Len(chunks[JOB]))
         ]_vars

\* The frame of a chunk: the chunk_type as key, and as value the content of
\* the chunk, or true for a done chunk.
FrameFor(chunk) ==
    [key |-> chunk.chunk_type,
     value |-> IF chunk.chunk_type = "done" THEN "true" ELSE chunk.content]

\* C22: a session emits exactly one frame for each chunk it consumes, in the
\* replay from the list it has read and in the wait loop from the message it
\* has received, and the frame is the same in both: {content: payload},
\* {reasoning: payload}, {done: true} or {error: payload}.
C22_OneFramePerEvent ==
    [][ \A c \in Clients :
          /\ ReplayStep(c) =>
                frames'[c] = Append(frames[c],
                                    FrameFor(existing_chunks[c][pos[c]]))
          /\ (GetMessage(c) /\ inbox[c] # <<>>) =>
                frames'[c] = Append(frames[c],
                                    FrameFor(loads(Head(inbox[c]).data)))
      ]_vars

\* A session has emitted a content frame, a reasoning frame and the done
\* frame, the first of them from the replay.
C22_Witness ==
    /\ cpc[1] = "closed"
    /\ frames[1] = << [key |-> "content", value |-> "A"],
                      [key |-> "reasoning", value |-> "R"],
                      [key |-> "done", value |-> "true"] >>
    /\ existing_chunks[1] # <<>>

RECURSIVE Payloads(_, _)
Payloads(list, chunk_type) ==
    IF list = <<>> THEN ""
    ELSE (IF Head(list).chunk_type = chunk_type THEN Head(list).content
          ELSE "") \o Payloads(Tail(list), chunk_type)

Placeholder == [content |-> "", reasoning |-> NULL, task_id |-> JOB]

\* C25: when the engine raises, the producer leaves the message row as it
\* is: from the moment the handler of the engine's exception runs, the row
\* is the empty placeholder (content empty, reasoning null), and no step of
\* the handler writes it; the deltas yielded before the failure are in the
\* chunk list only.
C25_MessageUntouchedOnFailure ==
    /\ []( (phase = "error" /\ chunk_data.content = ENGINE_ERROR) =>
              message = Placeholder )
    /\ [][ (phase = "error" \/ phase' = "error") => message' = message ]_vars

\* The engine has raised after a content delta: the chunk and the error
\* chunk are stored and the run has ended.
C25_Witness ==
    /\ EngineRaised
    /\ Len(chunks[JOB]) = 2
    /\ Stored(JOB)[1].chunk_type = "content"
    /\ Stored(JOB)[2].content = ENGINE_ERROR
    /\ message.content = ""

\* C26: a session only reads the shared state.  No step of a generator
\* (LRANGE, replay, subscribe, check of the deadline, wait, emission, end,
\* close by the client) changes a chunk list, its expiry, the metadata or the
\* message row; each change of one of them is a step of the producer or the
\* expiry of the list in Redis.
C26_SessionReadOnly ==
    [][ /\ \A c \in Clients :
              Consumer(c) => UNCHANGED <<chunks, ttl, metadata, message>>
        /\ <<chunks, ttl, metadata, message>>' # <<chunks, ttl, metadata, message>>
              => (Producer \/ Purge)
      ]_vars

\* A client has closed its first session and waits in its second one, while
\* the run is under way with a chunk stored.
C26_Witness ==
    /\ attaches[1] = 2
    /\ cpc[1] = "wait"
    /\ chunks[JOB] # <<>>
    /\ metadata = "processing"
    /\ ~Ended

Skippable(data) ==
    \/ ~IsJson(data)
    \/ loads(data).chunk_type \notin {"content", "reasoning", "done", "error"}

\* C29: in the wait loop a message whose payload is not JSON, or whose
\* chunk_type is none of content, reasoning, done, error, is passed over:
\* the session emits no frame for it, stays subscribed at the head of the
\* loop, and keeps the messages that came after it.
C29_SkipUnknownNotification ==
    [][ \A c \in Clients :
          (GetMessage(c) /\ inbox[c] # <<>> /\ Skippable(Head(inbox[c]).data))
          => /\ frames'[c] = frames[c]
             /\ cpc'[c] = "loop"
             /\ inbox'[c] = Tail(inbox[c])
      ]_vars

\* One session has replayed chunk 0, received it once more as a message (so
\* it was subscribed before any PUBLISH), then received a foreign message
\* and the done message, and has ended on the done message.
C29_Witness ==
    /\ cpc[1] = "closed"
    /\ attaches[1] = 1
    /\ srcs[1] = <<0, 0, 1>>
    /\ Len(published) = 3
    /\ published[2] \in ForeignPayloads
    /\ Last(frames[1]).key = "done"

\* ---- C28
\* The rows of the messages table and the jobs request r has added.
RowsBy(r, role) == {i \in 1..Len(messages) :
                      messages[i].by = r /\ messages[i].role = role}
JobsBy(r) == {j \in 1..Len(jobs) : jobs[j].by = r}

====
